---- MODULE Spec2Model ----
(***************************************************************************)
(* Model of the meeting pipeline of ai-meeting-assistant:                  *)
(*   src/src/ai_agent.py       the four run-mode entry points              *)
(*   src/src/llm_processor.py  JSON extraction, speaker inference,         *)
(*                             minutes synthesis, event extraction         *)
(*   src/src/audio_processor.py, src/src/calendar_manager.py               *)
(*                                                                         *)
(* Text returned by the completion service is a sequence of lexemes        *)
(* (tokens); Python values are tagged records so that values of different  *)
(* Python types are never equal.                                           *)
(***************************************************************************)
EXTENDS Integers, Sequences, FiniteSets, TLC

VARIABLES
    mode,        \* which entry point is running
    pc,          \* position inside the entry point
    result,      \* the ProcessingResult (None before the entry point creates it)
    transcript,  \* the MeetingTranscript object (None before transcription)
    speaker_map, \* local of process_meeting
    now,         \* time.time(), in ticks
    start_time,  \* local start_time of the entry point
    raised,      \* history: the stage whose exception reached the entry point, and the exception
    calls,       \* history: the calls made to the transcription and completion services, with their outcomes
    created,     \* history: what create_events returned
    fnIn,        \* harness: argument of the function under test
    fnOut        \* harness: its outcome

vars == <<mode, pc, result, transcript, speaker_map, now, start_time,
          raised, calls, created, fnIn, fnOut>>

----------------------------------------------------------------------------
(* Bounds *)

MaxUtterances == 2
MaxMembers == 2
MaxCandidates == 2

----------------------------------------------------------------------------
(* Python values *)

None == [ty |-> "none"]
Str(s) == [ty |-> "str", s |-> s]
StrOf(toks) == [ty |-> "str", toks |-> toks]
TS(fmt, t) == [ty |-> "str", fmt |-> fmt, t |-> t]
Num(n) == [ty |-> "num", n |-> n]
List(l) == [ty |-> "list", l |-> l]
Dict(d) == [ty |-> "dict", d |-> d]
EmptyDict == [k \in {} |-> None]

Put(d, k, v) == [x \in (DOMAIN d) \cup {k} |-> IF x = k THEN v ELSE d[x]]
\* dict.get(k, default)
Get(d, k, default) == IF k \in DOMAIN d THEN d[k] ELSE default
\* Python truthiness of a JSON value
Truthy(v) ==
    CASE v.ty = "none" -> FALSE
      [] v.ty = "list" -> v.l # <<>>
      [] v.ty = "dict" -> DOMAIN v.d # {}
      [] v.ty = "num"  -> v.n # 0
      [] v.ty = "str"  -> IF "s" \in DOMAIN v THEN v.s # ""
                          ELSE IF "toks" \in DOMAIN v THEN v.toks # <<>>
                          ELSE TRUE
      [] OTHER -> TRUE

\* Outcome of a call: a returned value or a raised exception
Ok(v) == [ok |-> TRUE, val |-> v]
Raise(type, msg) == [ok |-> FALSE, type |-> type, msg |-> msg]
\* pydantic's ValidationError derives from ValueError
IsValueError(exc) == exc.type \in {"ValueError", "ValidationError", "JSONDecodeError"}
IsKeyError(exc) == exc.type = "KeyError"

----------------------------------------------------------------------------
(* Lexemes of a completion-service response *)

LB == [t |-> "lb"]                      \* {
RB == [t |-> "rb"]                      \* }
SP == [t |-> "sp"]                      \* a blank
NL == [t |-> "nl"]                      \* \n
BUL == [t |-> "bullet"]                 \* - or *
GLYPH == [t |-> "glyph"]                \* the three-character bullet literal
GLYPHTAIL == [t |-> "glyphtail"]        \* that literal without its first character
SUM == [t |-> "summary"]                \* Summary:
W(s) == [t |-> "word", s |-> s]         \* a word of prose, no braces
KV(k, v) == [t |-> "kv", k |-> k, v |-> v]   \* "k": v  (v without braces)
KEY(k) == [t |-> "key", k |-> k]        \* "k":  (an object follows)
KQ(k) == [t |-> "kq", k |-> k]          \* "k": "  (the characters of a string follow)
QQ == [t |-> "qq"]                      \* the " that closes that string

TokLen(tok) ==
    CASE tok.t \in {"lb", "rb", "sp", "nl", "bullet", "qq"} -> 1
      [] tok.t = "glyph" -> 3
      [] tok.t = "glyphtail" -> 2
      [] tok.t = "summary" -> 8
      [] OTHER -> 2

RECURSIVE TextLen(_)
TextLen(s) == IF s = <<>> THEN 0 ELSE TokLen(Head(s)) + TextLen(Tail(s))

----------------------------------------------------------------------------
(* json.loads on a balanced block: { member* } where a member is "k": v,   *)
(* "k": followed by an object, or "k": " followed by the characters of a   *)
(* string and its closing quote; blanks and newlines are skipped.          *)

\* the position of the quote that closes the string opened before i, 0 when
\* the string is not closed
RECURSIVE ClosingQuote(_, _)
ClosingQuote(s, i) ==
    IF i > Len(s) THEN 0
    ELSE IF s[i].t = "qq" THEN i ELSE ClosingQuote(s, i + 1)

RECURSIVE ParseMembers(_, _, _)
ParseMembers(s, i, acc) ==
    IF i > Len(s) THEN [ok |-> FALSE]
    ELSE CASE s[i].t = "rb" -> [ok |-> TRUE, val |-> acc, next |-> i + 1]
           [] s[i].t \in {"sp", "nl"} -> ParseMembers(s, i + 1, acc)
           [] s[i].t = "kv" -> ParseMembers(s, i + 1, Put(acc, s[i].k, s[i].v))
           [] s[i].t = "kq" ->
                LET q == ClosingQuote(s, i + 1) IN
                IF q = 0 THEN [ok |-> FALSE]
                ELSE ParseMembers(s, q + 1, Put(acc, s[i].k, StrOf(SubSeq(s, i + 1, q - 1))))
           [] s[i].t = "key" ->
                IF i + 1 <= Len(s) /\ s[i + 1].t = "lb"
                THEN LET r == ParseMembers(s, i + 2, EmptyDict) IN
                     IF r.ok THEN ParseMembers(s, r.next, Put(acc, s[i].k, Dict(r.val)))
                     ELSE [ok |-> FALSE]
                ELSE [ok |-> FALSE]
           [] OTHER -> [ok |-> FALSE]

json_loads(block) ==
    IF block # <<>> /\ block[1].t = "lb"
    THEN LET r == ParseMembers(block, 2, EmptyDict) IN
         IF r.ok /\ r.next = Len(block) + 1 THEN Ok(r.val)
         ELSE Raise("JSONDecodeError", "json_decode_error")
    ELSE Raise("JSONDecodeError", "json_decode_error")

\* text.find('{'): 0 when absent (positions are 1-based here)
RECURSIVE FindLB(_, _)
FindLB(text, i) ==
    IF i > Len(text) THEN 0
    ELSE IF text[i].t = "lb" THEN i ELSE FindLB(text, i + 1)

\* the scan of extract_first_json_block from position i with the given depth
RECURSIVE ScanBlock(_, _, _, _)
ScanBlock(text, start, i, brace_count) ==
    IF i > Len(text) THEN Raise("ValueError", "no_valid_json_object")
    ELSE IF text[i].t = "lb" THEN ScanBlock(text, start, i + 1, brace_count + 1)
    ELSE IF text[i].t = "rb" THEN
        IF brace_count - 1 = 0
        THEN LET r == json_loads(SubSeq(text, start, i)) IN
             IF r.ok THEN r ELSE Raise("ValueError", "no_valid_json_object")
        ELSE ScanBlock(text, start, i + 1, brace_count - 1)
    ELSE ScanBlock(text, start, i + 1, brace_count)


\* mutant: the slice handed to json.loads starts at the beginning of the text
extract_json_from_text_start(text) ==
    IF text.ty # "str" THEN Raise("AttributeError", "attribute_error")
    ELSE LET start == FindLB(text.toks, 1) IN
         IF start = 0 THEN Raise("ValueError", "no_json_object")
         ELSE ScanBlock(text.toks, 1, start, 0)

\* mutant: after a failure the scan is tried once more from the next opening brace
extract_json_second_attempt(text) ==
    IF text.ty # "str" THEN Raise("AttributeError", "attribute_error")
    ELSE LET start == FindLB(text.toks, 1) IN
         IF start = 0 THEN Raise("ValueError", "no_json_object")
         ELSE LET first == ScanBlock(text.toks, start, start, 0)
                  next_start == FindLB(text.toks, start + 1)
              IN IF first.ok \/ next_start = 0 THEN first
                 ELSE ScanBlock(text.toks, next_start, next_start, 0)

\* mutant: one message for both failures
extract_json_one_message(text) ==
    IF text.ty # "str" THEN Raise("AttributeError", "attribute_error")
    ELSE LET start == FindLB(text.toks, 1) IN
         IF start = 0 THEN Raise("ValueError", "no_valid_json_object")
         ELSE ScanBlock(text.toks, start, start, 0)

extract_first_json_block(text) ==
    IF text.ty # "str" THEN Raise("AttributeError", "attribute_error")
    ELSE LET start == FindLB(text.toks, 1) IN
         IF start = 0 THEN Raise("ValueError", "no_json_object")
         ELSE ScanBlock(text.toks, start, start, 0)

----------------------------------------------------------------------------
(* _fallback_parsing *)

IsBlank(tok) == tok.t = "sp"

\* str.strip() on a line (a line holds no newline)
RECURSIVE LStrip(_)
LStrip(s) == IF s # <<>> /\ IsBlank(Head(s)) THEN LStrip(Tail(s)) ELSE s
RECURSIVE RStrip(_)
RStrip(s) ==
    IF s # <<>> /\ IsBlank(s[Len(s)]) THEN RStrip(SubSeq(s, 1, Len(s) - 1)) ELSE s
Strip(s) == RStrip(LStrip(s))

\* response.split('\n')
RECURSIVE SplitLines(_, _)
SplitLines(s, cur) ==
    IF s = <<>> THEN <<cur>>
    ELSE IF Head(s).t = "nl" THEN <<cur>> \o SplitLines(Tail(s), <<>>)
    ELSE SplitLines(Tail(s), Append(cur, Head(s)))

\* line[1:]: the line without its first character
DropFirstChar(line) ==
    IF Head(line).t = "glyph" THEN <<GLYPHTAIL>> \o Tail(line) ELSE Tail(line)

\* the loop over the lines that collects key_points
RECURSIVE BulletPoints(_)
BulletPoints(lines) ==
    IF lines = <<>> THEN <<>>
    ELSE LET line == Strip(Head(lines)) IN
         (IF line # <<>> /\ Head(line).t \in {"bullet", "glyph"} /\ TextLen(line) > 2
          THEN <<StrOf(Strip(DropFirstChar(line)))>>
          ELSE <<>>) \o BulletPoints(Tail(lines))

\* position of the first "summary" that the pattern summary[:\s]+(.+?)(?:\n|$)
\* can match at, 0 when there is none
RECURSIVE SkipSeps(_, _)
SkipSeps(s, i) ==
    IF i <= Len(s) /\ s[i].t \in {"sp", "nl"} THEN SkipSeps(s, i + 1) ELSE i
RECURSIVE LineEnd(_, _)
LineEnd(s, i) == IF i <= Len(s) /\ s[i].t # "nl" THEN LineEnd(s, i + 1) ELSE i

RECURSIVE FindSummary(_, _)
FindSummary(s, i) ==
    IF i > Len(s) THEN 0
    ELSE IF s[i].t = "summary" /\ i < Len(s) THEN i
    ELSE FindSummary(s, i + 1)

\* group(1).strip() of the match: the text after the separators up to the end
\* of its line; when only separators follow, the match backtracks to blanks
SummaryText(s) ==
    LET i == FindSummary(s, 1) IN
    IF i = 0 THEN Str("")
    ELSE LET j == SkipSeps(s, i + 1)
             e == LineEnd(s, j)
         IN IF j <= Len(s) /\ e > j THEN StrOf(Strip(SubSeq(s, j, e - 1)))
            ELSE Str("")

_fallback_parsing(response) ==
    IF response.ty # "str" THEN Raise("AttributeError", "attribute_error")
    ELSE Ok([x \in {"key_points", "action_items", "decisions", "next_steps", "summary"} |->
              CASE x = "key_points" -> List(BulletPoints(SplitLines(response.toks, <<>>)))
                [] x = "summary" -> SummaryText(response.toks)
                [] OTHER -> List(<<>>)])


----------------------------------------------------------------------------
(* Transcripts (models.py) and transcribe_audio *)

Labels == {"A", "B"}
Names == {"John", "B"}

\* sequences over S of length at most n
SeqsUpTo(S, n) == UNION {[1..k -> S] : k \in 0..n}

Range(f) == {f[i] : i \in DOMAIN f}

\* every ordering of a finite set (iteration order of a Python set)
Orderings(S) == {o \in [1..Cardinality(S) -> S] : Range(o) = S}

Utterances == [speaker : Labels, text : {"hi"}, start : {0}, end : {5000}]

\* what aai.Transcriber().transcribe gives: it raises, reports an error status,
\* or completes with utterances
TranscriberOutcomes ==
    {[status |-> "raises"], [status |-> "error"]}
    \cup {[status |-> "completed", utterances |-> u] :
            u \in SeqsUpTo(Utterances, MaxUtterances)}

NewSpeaker(id) == [speaker_id |-> id, role |-> "participant", confidence |-> 1]
NewSegment(utt) ==
    [start |-> utt.start, end |-> utt.end, speaker |-> utt.speaker,
     text |-> utt.text, confidence |-> 1]


\* mutant: one Speaker per utterance instead of one per distinct identifier
transcribe_audio_speaker_per_utterance(out, order, meeting_id) ==
    IF out.status = "raises" THEN Raise("Exception", "transcriber_error")
    ELSE IF out.status = "error" THEN Raise("Exception", "transcription_failed")
    ELSE Ok([meeting_id |-> meeting_id,
             speakers |-> [i \in DOMAIN out.utterances |-> NewSpeaker(out.utterances[i].speaker)],
             segments |-> [i \in DOMAIN out.utterances |-> NewSegment(out.utterances[i])]])

\* transcribe_audio, given the service's outcome and the iteration order of
\* the set of speaker identifiers
transcribe_audio(out, order, meeting_id) ==
    IF out.status = "raises" THEN Raise("Exception", "transcriber_error")
    ELSE IF out.status = "error" THEN Raise("Exception", "transcription_failed")
    ELSE Ok([meeting_id |-> meeting_id,
             speakers |-> [i \in DOMAIN order |-> NewSpeaker(order[i])],
             segments |-> [i \in DOMAIN out.utterances |-> NewSegment(out.utterances[i])]])

\* the transcripts transcribe_audio can build
SpeakerIds(utterances) == {utterances[i].speaker : i \in DOMAIN utterances}
Transcripts ==
    UNION {{transcribe_audio(out, order, "m1").val :
                order \in Orderings(SpeakerIds(out.utterances))} :
            out \in {o \in TranscriberOutcomes : o.status = "completed"}}

----------------------------------------------------------------------------
(* _call_ollama: it returns the response text or re-raises *)

CallFailures == {Raise("Exception", "ollama_api_error"), Raise("Timeout", "ollama_timeout")}
Text(toks) == Ok(StrOf(toks))

\* responses that hold no JSON object that parses
NonJsonTexts ==
    { <<>>,
      <<W("sorry")>>,
      <<BUL, SP, W("point"), NL, BUL, W("q")>>,
      <<BUL, LB>>,
      <<SP, GLYPH, SP, W("point"), SP>>,
      <<SUM, SP, W("recap"), NL, BUL, SP, W("point")>>,
      <<W("the"), SP, SUM, NL, W("recap"), SP, NL>>,
      <<SUM, SP>>,
      <<LB, KV("summary", Str("s"))>>,
      <<LB, W("oops"), RB>>,
      <<LB, LB, RB>>,
      <<LB, W("oops"), RB, NL, LB, RB>>,
      <<BUL, SP, W("point"), NL, LB, KV("summary", Str("s")), W("x"), RB>> }

\* a JSON object with the given members, bare or inside prose
Embed(members) ==
    { <<LB>> \o members \o <<RB>>,
      <<W("Sure"), NL, LB>> \o members \o <<RB, NL, W("bye")>> }

JsonTexts(Members, n) == UNION {Embed(m) : m \in SeqsUpTo(Members, n)}

----------------------------------------------------------------------------
(* infer_speaker_names / analyze_speaker_names_from_text *)

SpeakerMembers ==
    {KV(l, Str(nm)) : l \in Labels, nm \in Names}
    \cup {KV("A", None), KV("B", Num(1)), KV("A", List(<<>>))}

SpeakerCalls ==
    CallFailures
    \cup {Text(t) : t \in NonJsonTexts}
    \cup {Text(t) : t \in JsonTexts(SpeakerMembers, MaxMembers)}

\* the entries of the mapping whose label and name are both strings
ValidatedMapping(mapping) ==
    [l \in {k \in DOMAIN mapping : mapping[k].ty = "str"} |-> mapping[l].s]

\* the body shared by the two functions: the call, the extraction and the
\* validation sit in one try; the handler prints the local `response`, which
\* is unbound when the call itself raised
SpeakerMappingFrom(call) ==
    IF ~call.ok THEN Raise("UnboundLocalError", "response_unbound")
    ELSE LET mapping == extract_first_json_block(call.val) IN
         IF ~mapping.ok THEN Ok(EmptyDict)
         ELSE Ok(ValidatedMapping(mapping.val))

infer_speaker_names(tr, call) == SpeakerMappingFrom(call)

analyze_speaker_names_from_text(call) == SpeakerMappingFrom(call)


----------------------------------------------------------------------------
(* generate_meeting_minutes *)

\* iterating a JSON value with `for x in v`: the items, or the TypeError of a
\* value that is not iterable (None, a number)
Iterate(v) ==
    CASE v.ty = "list" -> Ok(v.l)
      [] v.ty = "dict" -> Ok([i \in 1..Cardinality(DOMAIN v.d) |-> Str("key")])
      [] v.ty = "str"  -> Ok(IF Truthy(v) THEN <<Str("c")>> ELSE <<>>)
      [] OTHER -> Raise("TypeError", "not_iterable")

\* datetime.strptime(v, "%Y-%m-%d")
StrptimeDate(v) ==
    IF v.ty # "str" THEN Raise("TypeError", "strptime_argument_not_str")
    ELSE IF "fmt" \in DOMAIN v /\ v.fmt = "ymd" THEN Ok([date |-> v.t])
    ELSE Raise("ValueError", "time_data_does_not_match")

IsStr(v) == v.ty = "str"
IsOptStr(v) == v.ty \in {"str", "none"}

\* ActionItem(...): pydantic checks the field types, nothing else
ActionItem(description, assignee, due_date, priority) ==
    IF IsStr(description) /\ IsOptStr(assignee) /\ IsStr(priority)
    THEN Ok([description |-> description, assignee |-> assignee,
             due_date |-> due_date, priority |-> priority, status |-> Str("pending")])
    ELSE Raise("ValidationError", "action_item_validation")

\* the body of the loop over action_items for one item
MakeActionItem(item) ==
    IF item.ty # "dict" THEN Raise("AttributeError", "no_attribute_get")
    ELSE LET d == item.d
             parsed == IF Truthy(Get(d, "due_date", None))
                       THEN StrptimeDate(d["due_date"]) ELSE Ok(None)
         IN IF ~parsed.ok /\ ~IsValueError(parsed) THEN parsed
            ELSE ActionItem(Get(d, "description", Str("")), Get(d, "assignee", None),
                            IF parsed.ok THEN parsed.val ELSE None,
                            Get(d, "priority", Str("medium")))

Decision(topic, decision, rationale) ==
    IF IsStr(topic) /\ IsStr(decision) /\ IsOptStr(rationale)
    THEN Ok([topic |-> topic, decision |-> decision, rationale |-> rationale])
    ELSE Raise("ValidationError", "decision_validation")

MakeDecision(item) ==
    IF item.ty # "dict" THEN Raise("AttributeError", "no_attribute_get")
    ELSE Decision(Get(item.d, "topic", Str("")), Get(item.d, "decision", Str("")),
                  Get(item.d, "rationale", None))

\* a loop that appends Make(item) for each item and stops at the first raise
RECURSIVE ActionItemsOf(_)
ActionItemsOf(items) ==
    IF items = <<>> THEN Ok(<<>>)
    ELSE LET one == MakeActionItem(Head(items)) IN
         IF ~one.ok THEN one
         ELSE LET rest == ActionItemsOf(Tail(items)) IN
              IF ~rest.ok THEN rest ELSE Ok(<<one.val>> \o rest.val)

RECURSIVE DecisionsOf(_)
DecisionsOf(items) ==
    IF items = <<>> THEN Ok(<<>>)
    ELSE LET one == MakeDecision(Head(items)) IN
         IF ~one.ok THEN one
         ELSE LET rest == DecisionsOf(Tail(items)) IN
              IF ~rest.ok THEN rest ELSE Ok(<<one.val>> \o rest.val)

\* parsed_data.get(key) or []
GetOrEmptyList(d, k) ==
    LET v == Get(d, k, None) IN IF Truthy(v) THEN v ELSE List(<<>>)

IsListOfStr(v) == v.ty = "list" /\ \A i \in DOMAIN v.l : IsStr(v.l[i])

\* MeetingMinutes(...): pydantic checks the field types
MeetingMinutes(meeting_id, participants, key_points, action_items, decisions, next_steps, summary) ==
    IF IsListOfStr(key_points) /\ IsListOfStr(next_steps) /\ IsStr(summary)
    THEN Ok([meeting_id |-> meeting_id, participants |-> participants,
             key_points |-> key_points.l, action_items |-> action_items,
             decisions |-> decisions, next_steps |-> next_steps.l,
             summary |-> summary])
    ELSE Raise("ValidationError", "minutes_validation")

\* list(set(segment.speaker ...)): kept as the set, its order is arbitrary
Participants(tr) == {tr.segments[i].speaker : i \in DOMAIN tr.segments}


\* mutant: the participants are taken from the response when it names some
MinutesFromParsedTrustingResponse(tr, parsed_data) ==
    LET ai_iter == Iterate(Get(parsed_data, "action_items", List(<<>>))) IN
    IF ~ai_iter.ok THEN ai_iter
    ELSE LET action_items == ActionItemsOf(ai_iter.val) IN
    IF ~action_items.ok THEN action_items
    ELSE LET d_iter == Iterate(Get(parsed_data, "decisions", List(<<>>))) IN
    IF ~d_iter.ok THEN d_iter
    ELSE LET decisions == DecisionsOf(d_iter.val) IN
    IF ~decisions.ok THEN decisions
    ELSE MeetingMinutes(tr.meeting_id,
                        IF "participants" \in DOMAIN parsed_data
                        THEN {parsed_data["participants"].l[i].s :
                                 i \in DOMAIN parsed_data["participants"].l}
                        ELSE Participants(tr),
                        GetOrEmptyList(parsed_data, "key_points"),
                        action_items.val, decisions.val,
                        GetOrEmptyList(parsed_data, "next_steps"),
                        Get(parsed_data, "summary", Str("")))

\* the part of generate_meeting_minutes after parsed_data is known
MinutesFromParsed(tr, parsed_data) ==
    LET ai_iter == Iterate(Get(parsed_data, "action_items", List(<<>>))) IN
    IF ~ai_iter.ok THEN ai_iter
    ELSE LET action_items == ActionItemsOf(ai_iter.val) IN
    IF ~action_items.ok THEN action_items
    ELSE LET d_iter == Iterate(Get(parsed_data, "decisions", List(<<>>))) IN
    IF ~d_iter.ok THEN d_iter
    ELSE LET decisions == DecisionsOf(d_iter.val) IN
    IF ~decisions.ok THEN decisions
    ELSE MeetingMinutes(tr.meeting_id, Participants(tr),
                        GetOrEmptyList(parsed_data, "key_points"),
                        action_items.val, decisions.val,
                        GetOrEmptyList(parsed_data, "next_steps"),
                        Get(parsed_data, "summary", Str("")))


\* mutant: a response that does not parse is not given to fallback parsing
ParsedOrRaise(response) == extract_first_json_block(response)

\* the inner try of generate_meeting_minutes: extraction, else fallback parsing
ParsedOrFallback(response) ==
    LET parsed == extract_first_json_block(response) IN
    IF parsed.ok THEN parsed ELSE _fallback_parsing(response)

\* every exception is re-raised by the outer handler
generate_meeting_minutes(tr, call) ==
    IF ~call.ok THEN call
    ELSE LET parsed_data == ParsedOrFallback(call.val) IN
         IF ~parsed_data.ok THEN parsed_data
         ELSE MinutesFromParsed(tr, parsed_data.val)

Absent == [ty |-> "absent"]
\* the dict of the fields that are present
DictOf(fields) ==
    Dict([k \in {x \in DOMAIN fields : fields[x] # Absent} |-> fields[k]])

ItemDicts ==
    { EmptyDict,
      [k \in {"priority"} |-> Str("high")],
      [k \in {"priority"} |-> Str("urgent")],
      [k \in {"priority"} |-> None],
      [k \in {"description", "due_date", "priority"} |->
          CASE k = "description" -> Str("send report")
            [] k = "due_date" -> TS("ymd", 1)
            [] OTHER -> Str("low")],
      [k \in {"description", "due_date"} |->
          IF k = "description" THEN Str("call") ELSE Str("soon")] }

DecisionDict ==
    [k \in {"topic", "decision"} |-> IF k = "topic" THEN Str("budget") ELSE Str("approved")]

MinutesMembers ==
    {KV("action_items", List(<<Dict(d)>>)) : d \in ItemDicts}
    \cup { KV("action_items", None),
           KV("action_items", List(<<>>)),
           KV("action_items", List(<<Str("do it")>>)),
           KV("key_points", None),
           KV("key_points", List(<<Str("point")>>)),
           KV("decisions", None),
           KV("decisions", List(<<Dict(DecisionDict)>>)),
           KV("next_steps", None),
           KV("next_steps", List(<<Str("step")>>)),
           KV("summary", Str("recap")) }

\* what a response may give as the due date of an action item
DueDateValues ==
    { Absent, None, Str(""), Str("soon"), TS("ymd", 1), TS("hm", 1), Num(5),
      List(<<>>), List(<<TS("ymd", 1)>>) }

ItemWithDueDate(v) == DictOf([description |-> Str("send report"), due_date |-> v])

\* responses with one action item for each due date, and a response that
\* names participants of its own
MoreMinutesTexts ==
    {<<LB, KV("action_items", List(<<ItemWithDueDate(v)>>)), RB>> : v \in DueDateValues}
    \cup { <<LB, KV("participants", List(<<Str("Zoe")>>)), KV("summary", Str("recap")), RB>> }

MinutesCalls ==
    CallFailures
    \cup {Text(t) : t \in NonJsonTexts}
    \cup {Text(t) : t \in JsonTexts(MinutesMembers, MaxMembers)}
    \cup {Text(t) : t \in MoreMinutesTexts}


----------------------------------------------------------------------------
(* parse_datetime and extract_calendar_events *)

\* datetime.strptime(v, fmt) for the two formats of parse_datetime,
\* "hm" = %Y-%m-%d %H:%M and "hms" = %Y-%m-%d %H:%M:%S
Strptime(v, fmt) ==
    IF v.ty # "str" THEN Raise("TypeError", "strptime_argument_not_str")
    ELSE IF "fmt" \in DOMAIN v /\ v.fmt = fmt THEN Ok([dt |-> v.t])
    ELSE Raise("ValueError", "time_data_does_not_match")

\* only ValueError moves on to the next format
parse_datetime(dt_str) ==
    LET first == Strptime(dt_str, "hm") IN
    IF first.ok \/ ~IsValueError(first) THEN first
    ELSE LET second == Strptime(dt_str, "hms") IN
         IF second.ok \/ ~IsValueError(second) THEN second
         ELSE Raise("ValueError", "time_data_does_not_match_expected_formats")

\* event_data[key]
Subscript(v, k) ==
    IF v.ty # "dict" THEN Raise("TypeError", "not_subscriptable_by_str")
    ELSE IF k \in DOMAIN v.d THEN Ok(v.d[k])
    ELSE Raise("KeyError", k)

\* the default of CalendarEvent.reminders
DefaultReminders == [useDefault |-> FALSE, overrides |-> <<"email", "popup">>]

\* CalendarEvent(...): pydantic checks the field types, nothing else
CalendarEvent(summary, description, start_dt, end_dt, attendees, location) ==
    IF IsStr(summary) /\ IsStr(description) /\ IsListOfStr(attendees) /\ IsOptStr(location)
    THEN Ok([summary |-> summary, description |-> description,
             start_time |-> start_dt, end_time |-> end_dt,
             attendees |-> attendees.l, location |-> location,
             reminders |-> DefaultReminders])
    ELSE Raise("ValidationError", "calendar_event_validation")

\* the body of the inner try for one candidate
MakeEvent(event_data) ==
    LET s == Subscript(event_data, "start_time") IN
    IF ~s.ok THEN s
    ELSE LET start_dt == parse_datetime(s.val) IN
    IF ~start_dt.ok THEN start_dt
    ELSE LET e == Subscript(event_data, "end_time") IN
    IF ~e.ok THEN e
    ELSE LET end_dt == parse_datetime(e.val) IN
    IF ~end_dt.ok THEN end_dt
    ELSE CalendarEvent(Get(event_data.d, "summary", Str("")),
                       Get(event_data.d, "description", Str("")),
                       start_dt.val, end_dt.val,
                       Get(event_data.d, "attendees", List(<<>>)),
                       Get(event_data.d, "location", None))

\* the inner handler: except (ValueError, KeyError): continue
InnerHandlerCatches(exc) == IsValueError(exc) \/ IsKeyError(exc)

\* the loop over the candidates: a caught exception skips the candidate, any
\* other exception leaves the loop
RECURSIVE EventsOf(_)
EventsOf(candidates) ==
    IF candidates = <<>> THEN Ok(<<>>)
    ELSE LET one == MakeEvent(Head(candidates)) IN
         IF ~one.ok /\ ~InnerHandlerCatches(one) THEN one
         ELSE LET rest == EventsOf(Tail(candidates)) IN
              IF ~rest.ok THEN rest
              ELSE Ok((IF one.ok THEN <<one.val>> ELSE <<>>) \o rest.val)

\* the body of the outer try
EventsBody(call) ==
    IF ~call.ok THEN call
    ELSE LET parsed_data == extract_first_json_block(call.val) IN
         IF ~parsed_data.ok THEN Ok(<<>>)
         ELSE LET it == Iterate(Get(parsed_data.val, "events", List(<<>>))) IN
              IF ~it.ok THEN it ELSE EventsOf(it.val)


\* mutant: the outer handler re-raises, as generate_meeting_minutes does
OuterHandlerReraises(exc) == exc

\* the outer handler: except Exception: return []
OuterHandler(exc) == Ok(<<>>)

extract_calendar_events(tr, minutes, call) ==
    LET body == EventsBody(call) IN
    IF body.ok THEN body ELSE OuterHandler(body)

\* the '@' of an address: an attendee string is written as the sequence of
\* its pieces, so that  '@' in email  is computed
AT == [t |-> "at"]
Email(user, domain) == StrOf(<<W(user), AT, W(domain)>>)

Cand(s, e) == DictOf([start_time |-> s, end_time |-> e, summary |-> Str("sync")])

Candidates ==
    { Cand(TS("hm", 1), TS("hms", 2)),
      Cand(TS("hms", 2), TS("hm", 1)),
      Cand(TS("hm", 1), TS("hm", 1)),
      Cand(TS("iso", 1), TS("hm", 2)),
      Cand(TS("hm", 1), TS("iso", 2)),
      Cand(Absent, TS("hm", 2)),
      Cand(TS("hm", 1), Absent),
      Cand(None, TS("hm", 2)),
      Cand(TS("hm", 1), None),
      DictOf([start_time |-> TS("hm", 1), end_time |-> TS("hm", 2), summary |-> None]),
      DictOf([start_time |-> TS("hm", 1), end_time |-> TS("hm", 2),
              attendees |-> List(<<Email("a", "b.com"), StrOf(<<W("nobody")>>)>>)]),
      DictOf([start_time |-> TS("hm", 1), end_time |-> TS("hm", 2), attendees |-> None]),
      Str("lunch on friday") }

EventsMembers(n) ==
    {<<>>, <<KV("events", None)>>, <<KV("summary", Str("none found"))>>}
    \cup {<<KV("events", List(c))>> : c \in SeqsUpTo(Candidates, n)}

EventsCalls ==
    CallFailures
    \cup {Text(t) : t \in NonJsonTexts}
    \cup {Text(t) : t \in UNION {Embed(m) : m \in EventsMembers(MaxCandidates)}}


----------------------------------------------------------------------------
(* CalendarManager (calendar_manager.py) *)

\* '@' in email
ContainsAt(email) ==
    "toks" \in DOMAIN email /\ \E i \in DOMAIN email.toks : email.toks[i] = AT


\* mutant: every non-empty string is kept
IsValidAttendeeNonEmpty(email) == IsStr(email) /\ Truthy(email)

\* isinstance(email, str) and '@' in email
IsValidAttendee(email) == IsStr(email) /\ ContainsAt(email)

\* the list comprehension of create_event
ValidAttendees(attendees) == SelectSeq(attendees, IsValidAttendee)

\* self.service after __init__: authenticate() built it or raised
Service == [ty |-> "resource"]

\* datetime.isoformat()
isoformat(dt) == [iso |-> dt.dt]

\* event_data of create_event: the body handed to events().insert
EventData(event) ==
    LET base == [summary |-> event.summary,
                 description |-> event.description,
                 start |-> [dateTime |-> isoformat(event.start_time), timeZone |-> "tz"],
                 end |-> [dateTime |-> isoformat(event.end_time), timeZone |-> "tz"],
                 reminders |-> event.reminders]
        valid_attendees == ValidAttendees(event.attendees)
        with_attendees ==
            IF event.attendees # <<>> /\ valid_attendees # <<>>
            THEN Put(base, "attendees",
                     [i \in DOMAIN valid_attendees |-> [email |-> valid_attendees[i]]])
            ELSE base
    IN IF Truthy(event.location)
       THEN Put(with_attendees, "location", event.location)
       ELSE with_attendees

\* what events().insert(...).execute() does with the n-th request
ServiceOutcomes == {"created", "http_error", "connection_error"}
ServiceResponse(outcome, n) ==
    CASE outcome = "created" -> Ok([id |-> n])
      [] outcome = "http_error" -> Raise("HttpError", "http_error")
      [] OTHER -> Raise("ConnectionError", "connection_error")

\* create_event: its outcome (both handlers re-raise) and the requests it
\* sent to the calendar service
create_event(service, event, outcome, n) ==
    IF ~Truthy(service)
    THEN [out |-> Raise("Exception", "Calendar service not initialized"), requests |-> <<>>]
    ELSE [out |-> ServiceResponse(outcome, n), requests |-> <<EventData(event)>>]


\* event_data of update_event: every attendee entry is kept
UpdateEventData(event) ==
    LET base == [summary |-> event.summary,
                 description |-> event.description,
                 start |-> [dateTime |-> isoformat(event.start_time), timeZone |-> "tz"],
                 end |-> [dateTime |-> isoformat(event.end_time), timeZone |-> "tz"],
                 reminders |-> event.reminders]
        with_attendees ==
            IF event.attendees # <<>>
            THEN Put(base, "attendees",
                     [i \in DOMAIN event.attendees |-> [email |-> event.attendees[i]]])
            ELSE base
    IN IF Truthy(event.location)
       THEN Put(with_attendees, "location", event.location)
       ELSE with_attendees

\* what events().update(...).execute() does
UpdateOutcomes == {"updated", "http_error", "connection_error"}

\* update_event: its outcome (both handlers re-raise) and the requests it sent
update_event(service, event_id, event, outcome) ==
    IF ~Truthy(service)
    THEN [out |-> Raise("Exception", "Calendar service not initialized"), requests |-> <<>>]
    ELSE [out |-> IF outcome = "updated" THEN Ok([id |-> event_id])
                  ELSE ServiceResponse(outcome, event_id),
          requests |-> <<UpdateEventData(event)>>]

\* mutant: the handler of create_events is narrowed to except HttpError
CreateEventsCatchesHttpOnly(exc) == exc.type = "HttpError"

\* except Exception: continue
CreateEventsCatches(exc) == TRUE

\* the loop of create_events from the i-th event on: the handles appended,
\* the events create_event was called with, the requests sent
RECURSIVE CreatedFrom(_, _, _, _)
CreatedFrom(service, events, outcomes, i) ==
    IF i > Len(events)
    THEN [out |-> Ok(<<>>), attempts |-> <<>>, requests |-> <<>>]
    ELSE LET one == create_event(service, events[i], outcomes[i], i) IN
         IF ~one.out.ok /\ ~CreateEventsCatches(one.out)
         THEN [out |-> one.out, attempts |-> <<i>>, requests |-> one.requests]
         ELSE LET rest == CreatedFrom(service, events, outcomes, i + 1) IN
              [out |-> IF ~rest.out.ok THEN rest.out
                       ELSE Ok((IF one.out.ok THEN <<one.out.val>> ELSE <<>>)
                               \o rest.out.val),
               attempts |-> <<i>> \o rest.attempts,
               requests |-> one.requests \o rest.requests]


\* mutant: create_events raises when none of the events could be created
create_events_or_raise(service, events, outcomes) ==
    LET r == CreatedFrom(service, events, outcomes, 1) IN
    IF r.out.ok /\ r.out.val = <<>> /\ events # <<>>
    THEN [r EXCEPT !.out = Raise("Exception", "no_event_created")]
    ELSE r

create_events(service, events, outcomes) == CreatedFrom(service, events, outcomes, 1)

----------------------------------------------------------------------------
(* The entry points of AIAgent (ai_agent.py) *)

Modes == {"process_meeting", "generate_minutes_only", "extract_events_only",
          "generate_transcript_only"}


\* mutant: the result is created in the default state of the enum
InitialStatusPending == "pending"

InitialStatus == "processing"

ProcessingResult(status, meeting_id) ==
    [status |-> status, meeting_id |-> meeting_id, transcript |-> None,
     minutes |-> None, calendar_events |-> <<>>, error_message |-> None,
     processing_time |-> None]


\* mutant: the handler is narrowed to except ValueError
CatchesValueErrorOnly(exc) == IsValueError(exc)

\* except Exception: every exception of the stages derives from Exception
Catches(exc) == TRUE


\* mutant: the except block returns a new result
ExceptHandlerFresh(res, exc, elapsed) ==
    [status |-> "failed", meeting_id |-> res.meeting_id, transcript |-> None,
     minutes |-> None, calendar_events |-> <<>>, error_message |-> Str(exc.msg),
     processing_time |-> Num(elapsed)]

\* mutant: the except block forgets the elapsed time
ExceptHandlerNoTime(res, exc, elapsed) ==
    [res EXCEPT !.status = "failed", !.error_message = Str(exc.msg)]

\* the except block of an entry point
ExceptHandler(res, exc, elapsed) ==
    [res EXCEPT !.status = "failed", !.error_message = Str(exc.msg),
                !.processing_time = Num(elapsed)]


\* mutant: the elapsed time is recorded on failure only
MarkCompletedNoTime(res, elapsed) == [res EXCEPT !.status = "completed"]

\* the last two statements of the try block
MarkCompleted(res, elapsed) ==
    [res EXCEPT !.status = "completed", !.processing_time = Num(elapsed)]

\* mutant: the mapping is applied until nothing changes any more (twice, for
\* the chains of two links)
RelabelSegmentsTwice(segments, map) ==
    [i \in DOMAIN segments |->
        LET first == IF segments[i].speaker \in DOMAIN map
                     THEN map[segments[i].speaker] ELSE segments[i].speaker
        IN [segments[i] EXCEPT !.speaker = IF first \in DOMAIN map THEN map[first]
                                           ELSE first]]

\* the relabel loops of process_meeting
RelabelSegments(segments, map) ==
    [i \in DOMAIN segments |->
        IF segments[i].speaker \in DOMAIN map
        THEN [segments[i] EXCEPT !.speaker = map[segments[i].speaker]]
        ELSE segments[i]]


\* mutant: the loop over the speakers is left out
RelabelSpeakersSkipped(speakers, map) == speakers

RelabelSpeakers(speakers, map) ==
    [i \in DOMAIN speakers |->
        IF speakers[i].speaker_id \in DOMAIN map
        THEN [speakers[i] EXCEPT !.speaker_id = map[speakers[i].speaker_id]]
        ELSE speakers[i]]


\* mutant: speakers that end with the identifier of an earlier speaker are
\* merged into it
RECURSIVE FirstOfEachId(_, _)
FirstOfEachId(speakers, seen) ==
    IF speakers = <<>> THEN <<>>
    ELSE IF Head(speakers).speaker_id \in seen
         THEN FirstOfEachId(Tail(speakers), seen)
         ELSE <<Head(speakers)>>
              \o FirstOfEachId(Tail(speakers), seen \cup {Head(speakers).speaker_id})

RelabeledMerged(tr, map) ==
    IF DOMAIN map # {}
    THEN [tr EXCEPT !.segments = RelabelSegments(tr.segments, map),
                    !.speakers = FirstOfEachId(RelabelSpeakers(tr.speakers, map), {})]
    ELSE tr

Relabeled(tr, map) ==
    IF DOMAIN map # {}
    THEN [tr EXCEPT !.segments = RelabelSegments(tr.segments, map),
                    !.speakers = RelabelSpeakers(tr.speakers, map)]
    ELSE tr


\* mutant: the minutes-only mode returns after transcription
AfterTranscriptSkipsMinutes(m) ==
    CASE m = "process_meeting" -> "infer"
      [] m = "extract_events_only" -> "events"
      [] OTHER -> "complete"

\* mutant: the full pipeline generates the minutes right after transcription
AfterTranscriptSkipsInference(m) ==
    CASE m = "generate_transcript_only" -> "complete"
      [] m = "extract_events_only" -> "events"
      [] OTHER -> "minutes"

\* where the entry point goes after a stage
AfterTranscript(m) ==
    CASE m = "process_meeting" -> "infer"
      [] m = "generate_minutes_only" -> "minutes"
      [] m = "extract_events_only" -> "events"
      [] OTHER -> "complete"

AfterMinutes(m) == IF m = "process_meeting" THEN "events" ELSE "complete"

AfterEvents(events) == IF events # <<>> THEN "calendar" ELSE "complete"

\* the completion-service outcomes the pipeline is run against
PipeSpeakerCalls ==
    { Raise("Exception", "ollama_api_error"),
      Text(<<W("sorry")>>),
      Text(<<LB, W("oops"), RB>>),
      Text(<<LB, RB>>),
      Text(<<W("Sure"), NL, LB, KV("A", Str("John")), RB>>),
      Text(<<LB, KV("A", Str("B")), KV("B", Str("John")), RB>>),
      Text(<<LB, KV("A", None), KV("B", Str("John")), RB>>) }

PipeMinutesCalls ==
    { Raise("Exception", "ollama_api_error") }
    \cup {Text(t) : t \in NonJsonTexts}
    \cup { Text(<<LB, RB>>),
           Text(<<LB, KV("action_items", None), RB>>),
           Text(<<LB, KV("action_items", List(<<Dict([k \in {"priority"} |-> Str("urgent")])>>)), RB>>),
           Text(<<W("Sure"), NL, LB, KV("key_points", List(<<Str("point")>>)),
                  KV("action_items", List(<<Dict([k \in {"description"} |-> Str("call")])>>)),
                  KV("decisions", List(<<Dict(DecisionDict)>>)),
                  KV("next_steps", List(<<Str("step")>>)),
                  KV("summary", Str("recap")), RB>>) }

PipeEventsCalls ==
    { Raise("Exception", "ollama_api_error"),
      Text(<<W("sorry")>>),
      Text(<<LB, RB>>),
      Text(<<LB, KV("events", None), RB>>) }
    \cup {Text(<<LB, KV("events", List(c)), RB>>) :
            c \in { <<DictOf([start_time |-> TS("hm", 1), end_time |-> TS("hm", 2)])>>,
                    <<DictOf([start_time |-> TS("hms", 2), end_time |-> TS("hm", 1)])>>,
                    <<DictOf([start_time |-> TS("hm", 1), end_time |-> TS("hms", 2)]),
                      DictOf([start_time |-> TS("iso", 1), end_time |-> TS("hm", 2)])>>,
                    <<DictOf([start_time |-> TS("hm", 1), end_time |-> TS("hm", 2)]),
                      DictOf([start_time |-> None, end_time |-> TS("hm", 2)])>> }}

Elapsed == (now + 1) - start_time


\* mutant: a stage that raised is run again
FailAndRetry(stage, exc) ==
    /\ raised' = [stage |-> stage, exc |-> exc]
    /\ result' = result
    /\ pc' = pc

\* the stage raised: the except block runs and the entry point returns
Fail(stage, exc) ==
    /\ raised' = [stage |-> stage, exc |-> exc]
    /\ IF Catches(exc)
       THEN /\ result' = ExceptHandler(result, exc, Elapsed)
            /\ pc' = "done"
       ELSE /\ result' = result
            /\ pc' = "escaped"

Init ==
    /\ mode = "none"
    /\ pc = "idle"
    /\ result = None
    /\ transcript = None
    /\ speaker_map = None
    /\ now = 0
    /\ start_time = 0
    /\ raised = None
    /\ calls = <<>>
    /\ created = None
    /\ fnIn = None
    /\ fnOut = None

\* an entry point is called: start_time, the new ProcessingResult
Enter(m) ==
    /\ pc = "idle"
    /\ mode' = m
    /\ start_time' = now
    /\ result' = ProcessingResult(InitialStatus, "m1")
    /\ pc' = "transcribe"
    /\ UNCHANGED <<transcript, speaker_map, now, raised, calls, created, fnIn, fnOut>>

\* process_audio_file, and result.transcript = transcript
Transcribe ==
    /\ pc = "transcribe"
    /\ now' = now + 1
    /\ \E out \in TranscriberOutcomes :
       \E order \in (IF out.status = "completed"
                     THEN Orderings(SpeakerIds(out.utterances)) ELSE {<<>>}) :
          LET r == transcribe_audio(out, order, result.meeting_id) IN
          /\ calls' = Append(calls, [stage |-> "transcription", call |-> out])
          /\ IF r.ok
             THEN /\ transcript' = r.val
                  /\ result' = [result EXCEPT !.transcript = r.val]
                  /\ pc' = AfterTranscript(mode)
                  /\ UNCHANGED raised
             ELSE /\ Fail("transcription", r)
                  /\ UNCHANGED transcript
    /\ UNCHANGED <<mode, speaker_map, start_time, created, fnIn, fnOut>>

\* speaker_map = infer_speaker_names(transcript)
InferSpeakerNames ==
    /\ pc = "infer"
    /\ now' = now + 1
    /\ \E call \in PipeSpeakerCalls :
          LET r == infer_speaker_names(transcript, call) IN
          /\ calls' = Append(calls, [stage |-> "infer", call |-> call])
          /\ IF r.ok
             THEN /\ speaker_map' = r.val
                  /\ pc' = "relabel"
                  /\ UNCHANGED <<raised, result>>
             ELSE /\ Fail("infer", r)
                  /\ UNCHANGED speaker_map
    /\ UNCHANGED <<mode, transcript, start_time, created, fnIn, fnOut>>

\* if speaker_map: relabel the segments and the speakers, in place; the
\* result holds the same transcript object
Relabel ==
    /\ pc = "relabel"
    /\ now' = now + 1
    /\ transcript' = Relabeled(transcript, speaker_map)
    /\ result' = [result EXCEPT !.transcript = Relabeled(transcript, speaker_map)]
    /\ pc' = "minutes"
    /\ UNCHANGED <<mode, speaker_map, start_time, raised, calls, created, fnIn, fnOut>>

\* minutes = generate_meeting_minutes(transcript); result.minutes = minutes
GenerateMinutes ==
    /\ pc = "minutes"
    /\ now' = now + 1
    /\ \E call \in PipeMinutesCalls :
          LET r == generate_meeting_minutes(transcript, call) IN
          /\ calls' = Append(calls, [stage |-> "minutes", call |-> call])
          /\ IF r.ok
             THEN /\ result' = [result EXCEPT !.minutes = r.val]
                  /\ pc' = AfterMinutes(mode)
                  /\ UNCHANGED raised
             ELSE Fail("minutes", r)
    /\ UNCHANGED <<mode, transcript, speaker_map, start_time, created, fnIn, fnOut>>

\* calendar_events = extract_calendar_events(...); result.calendar_events = ...
ExtractEvents ==
    /\ pc = "events"
    /\ now' = now + 1
    /\ \E call \in PipeEventsCalls :
          LET r == extract_calendar_events(transcript, result.minutes, call) IN
          /\ calls' = Append(calls, [stage |-> "events", call |-> call])
          /\ IF r.ok
             THEN /\ result' = [result EXCEPT !.calendar_events = r.val]
                  /\ pc' = AfterEvents(r.val)
                  /\ UNCHANGED raised
             ELSE Fail("events", r)
    /\ UNCHANGED <<mode, transcript, speaker_map, start_time, created, fnIn, fnOut>>

\* if calendar_events: created_events = create_events(calendar_events)
CreateEvents ==
    /\ pc = "calendar"
    /\ now' = now + 1
    /\ \E outcomes \in [DOMAIN result.calendar_events -> ServiceOutcomes] :
          LET r == create_events(Service, result.calendar_events, outcomes) IN
          IF r.out.ok
          THEN /\ created' = [handles |-> r.out.val, attempts |-> r.attempts,
                              requests |-> r.requests]
               /\ pc' = "complete"
               /\ UNCHANGED <<raised, result>>
          ELSE /\ Fail("calendar", r.out)
               /\ UNCHANGED created
    /\ UNCHANGED <<mode, transcript, speaker_map, start_time, calls, fnIn, fnOut>>

\* result.status = COMPLETED; result.processing_time = ...; return result
Complete ==
    /\ pc = "complete"
    /\ now' = now + 1
    /\ result' = MarkCompleted(result, Elapsed)
    /\ pc' = "done"
    /\ UNCHANGED <<mode, transcript, speaker_map, start_time, raised, calls, created,
                   fnIn, fnOut>>

Next ==
    \/ \E m \in Modes : Enter(m)
    \/ Transcribe
    \/ InferSpeakerNames
    \/ Relabel
    \/ GenerateMinutes
    \/ ExtractEvents
    \/ CreateEvents
    \/ Complete

Spec == Init /\ [][Next]_vars


----------------------------------------------------------------------------
(* The methods of LLMProcessor called on their own, on every outcome of    *)
(* the completion call                                                     *)

\* a transcript of two utterances by two speakers
ExampleTranscript ==
    transcribe_audio([status |-> "completed",
                      utterances |-> <<[speaker |-> "A", text |-> "hi", start |-> 0, end |-> 5000],
                                       [speaker |-> "B", text |-> "hi", start |-> 0, end |-> 5000]>>],
                     <<"A", "B">>, "m1").val

\* transcripts of zero, one and two speakers, of at most two segments
MinutesTranscripts ==
    {t \in Transcripts :
        /\ Len(t.segments) <= 2
        /\ \A i \in DOMAIN t.segments : i = 1 => t.segments[i].speaker = "A"
        /\ \A i \in DOMAIN t.speakers : i = 1 => t.speakers[i].speaker_id = "A"}

LLMInputs ==
    {[fn |-> "infer_speaker_names", tr |-> ExampleTranscript, call |-> c] : c \in SpeakerCalls}
    \cup {[fn |-> "analyze_speaker_names_from_text", tr |-> None, call |-> c] : c \in SpeakerCalls}
    \cup {[fn |-> "generate_meeting_minutes", tr |-> t, call |-> c] :
             t \in MinutesTranscripts, c \in MinutesCalls}
    \cup {[fn |-> "extract_calendar_events", tr |-> ExampleTranscript, call |-> c] :
             c \in EventsCalls}

InitLLM ==
    /\ mode = "none"
    /\ pc = "call"
    /\ result = None
    /\ transcript = None
    /\ speaker_map = None
    /\ now = 0
    /\ start_time = 0
    /\ raised = None
    /\ calls = <<>>
    /\ created = None
    /\ fnIn \in LLMInputs
    /\ fnOut = None

Return(out) ==
    /\ pc = "call"
    /\ fnOut' = out
    /\ pc' = "returned"
    /\ UNCHANGED <<mode, result, transcript, speaker_map, now, start_time, raised,
                   calls, created, fnIn>>

CallInferSpeakerNames ==
    /\ fnIn.fn = "infer_speaker_names"
    /\ Return(infer_speaker_names(fnIn.tr, fnIn.call))

CallAnalyzeSpeakerNames ==
    /\ fnIn.fn = "analyze_speaker_names_from_text"
    /\ Return(analyze_speaker_names_from_text(fnIn.call))

CallGenerateMinutes ==
    /\ fnIn.fn = "generate_meeting_minutes"
    /\ Return(generate_meeting_minutes(fnIn.tr, fnIn.call))

CallExtractEvents ==
    /\ fnIn.fn = "extract_calendar_events"
    /\ Return(extract_calendar_events(fnIn.tr, None, fnIn.call))

NextLLM ==
    \/ CallInferSpeakerNames
    \/ CallAnalyzeSpeakerNames
    \/ CallGenerateMinutes
    \/ CallExtractEvents

SpecLLM == InitLLM /\ [][NextLLM]_vars


----------------------------------------------------------------------------
(* extract_first_json_block called on its own: on JSON objects written     *)
(* inside prose, and on every short text                                   *)

MaxTextLen == 3

\* a JSON object as it is written: its members in order
Obj(members) == [ty |-> "object", members |-> members]
Member(k, v) == [k |-> k, v |-> v]

\* the value the written object stands for
RECURSIVE ValueOf(_)
ValueOf(obj) ==
    Dict([k \in {obj.members[i].k : i \in DOMAIN obj.members} |->
            LET v == (CHOOSE i \in DOMAIN obj.members : obj.members[i].k = k) IN
            IF obj.members[v].v.ty = "object" THEN ValueOf(obj.members[v].v)
            ELSE obj.members[v].v])

\* json.dumps: the text of the object
RECURSIVE Dumps(_)
DumpsFrom(obj, i, rest) ==
    LET m == obj.members[i] IN
    (CASE m.v.ty = "object" -> <<KEY(m.k)>> \o Dumps(m.v)
       [] m.v.ty = "str" /\ "toks" \in DOMAIN m.v -> <<KQ(m.k)>> \o m.v.toks \o <<QQ>>
       [] OTHER -> <<KV(m.k, m.v)>>) \o rest
RECURSIVE DumpsMembers(_, _)
DumpsMembers(obj, i) ==
    IF i > Len(obj.members) THEN <<>>
    ELSE DumpsFrom(obj, i, DumpsMembers(obj, i + 1))
Dumps(obj) == <<LB>> \o DumpsMembers(obj, 1) \o <<RB>>

\* member values: plain ones, strings that hold braces, objects
JsonValues ==
    { Str("x"), Num(1),
      StrOf(<<LB, W("x"), RB>>), StrOf(<<RB, LB>>), StrOf(<<LB>>),
      Obj(<<>>), Obj(<<Member("a", Num(1))>>) }

\* objects of at most MaxMembers members with distinct keys
JsonObjects ==
    {Obj(m) : m \in {ms \in SeqsUpTo([k : {"a", "b"}, v : JsonValues], MaxMembers) :
                        \A i, j \in DOMAIN ms : i # j => ms[i].k # ms[j].k}}

ProseBefore ==
    { <<>>, <<W("Sure"), NL>>, <<RB, SP>>, <<W("use"), LB, W("x"), RB, NL>>, <<W("see"), LB>> }
ProseAfter ==
    { <<>>, <<NL, W("bye")>>, <<LB>>, <<RB>>, <<SP, LB, RB>> }

TextTokens == {LB, RB, W("x"), KV("a", Num(1))}

JsonInputs ==
    {[fn |-> "extract_first_json_block", before |-> b, object |-> o, after |-> a,
      text |-> StrOf(b \o Dumps(o) \o a)] :
        b \in ProseBefore, o \in JsonObjects, a \in ProseAfter}
    \cup {[fn |-> "extract_first_json_block", text |-> StrOf(t)] :
            t \in SeqsUpTo(TextTokens, MaxTextLen)}

InitJson ==
    /\ mode = "none"
    /\ pc = "call"
    /\ result = None
    /\ transcript = None
    /\ speaker_map = None
    /\ now = 0
    /\ start_time = 0
    /\ raised = None
    /\ calls = <<>>
    /\ created = None
    /\ fnIn \in JsonInputs
    /\ fnOut = None

CallExtractJson ==
    /\ fnIn.fn = "extract_first_json_block"
    /\ Return(extract_first_json_block(fnIn.text))

NextJson == CallExtractJson

SpecJson == InitJson /\ [][NextJson]_vars


----------------------------------------------------------------------------
(* The methods of CalendarManager called on their own, on every outcome of *)
(* the calendar service                                                    *)

MaxAttendees == 2

AttendeeStrings ==
    {Email("a", "b.com"), Email("c", "d.org"), StrOf(<<AT>>), StrOf(<<W("nobody")>>),
     StrOf(<<>>)}

EventWith(attendees, location) ==
    CalendarEvent(Str("sync"), Str("weekly"), [dt |-> 1], [dt |-> 2],
                  List(attendees), location).val

CalEvents ==
    {EventWith(a, l) : a \in SeqsUpTo(AttendeeStrings, MaxAttendees),
                       l \in {None, Str(""), Str("room")}}

\* the events of a batch: valid and invalid attendees, invalid only, none
BatchEvents ==
    { EventWith(<<StrOf(<<W("nobody")>>), Email("a", "b.com")>>, None),
      EventWith(<<StrOf(<<W("nobody")>>)>>, Str("room")),
      EventWith(<<>>, None) }

CalInputs ==
    {[fn |-> "create_event", event |-> e, outcome |-> o] :
        e \in CalEvents, o \in ServiceOutcomes}
    \cup {[fn |-> "update_event", event_id |-> 1, event |-> e, outcome |-> o] :
            e \in CalEvents, o \in UpdateOutcomes}
    \cup UNION {{[fn |-> "create_events", events |-> es, outcomes |-> os] :
                    os \in [DOMAIN es -> ServiceOutcomes]} :
                es \in SeqsUpTo(BatchEvents, MaxCandidates)}

InitCal ==
    /\ mode = "none"
    /\ pc = "call"
    /\ result = None
    /\ transcript = None
    /\ speaker_map = None
    /\ now = 0
    /\ start_time = 0
    /\ raised = None
    /\ calls = <<>>
    /\ created = None
    /\ fnIn \in CalInputs
    /\ fnOut = None

CallCreateEvent ==
    /\ fnIn.fn = "create_event"
    /\ Return(create_event(Service, fnIn.event, fnIn.outcome, 1))

CallCreateEvents ==
    /\ fnIn.fn = "create_events"
    /\ Return(create_events(Service, fnIn.events, fnIn.outcomes))

CallUpdateEvent ==
    /\ fnIn.fn = "update_event"
    /\ Return(update_event(Service, fnIn.event_id, fnIn.event, fnIn.outcome))

NextCal ==
    \/ CallCreateEvent
    \/ CallCreateEvents
    \/ CallUpdateEvent

SpecCal == InitCal /\ [][NextCal]_vars


----------------------------------------------------------------------------
(* The relabel step of process_meeting applied on its own, to every        *)
(* transcript and every mapping of labels to names                         *)

RelabelNames == Labels \cup Names

\* the validated mappings: labels to strings
RelabelMappings == UNION {[S -> RelabelNames] : S \in SUBSET Labels}

RelabelInputs ==
    {[fn |-> "relabel", tr |-> t, speaker_map |-> m] :
        t \in Transcripts, m \in RelabelMappings}

InitRelabel ==
    /\ mode = "none"
    /\ pc = "call"
    /\ result = None
    /\ transcript = None
    /\ speaker_map = None
    /\ now = 0
    /\ start_time = 0
    /\ raised = None
    /\ calls = <<>>
    /\ created = None
    /\ fnIn \in RelabelInputs
    /\ fnOut = None

ApplyRelabel ==
    /\ fnIn.fn = "relabel"
    /\ Return(Relabeled(fnIn.tr, fnIn.speaker_map))

NextRelabel == ApplyRelabel

SpecRelabel == InitRelabel /\ [][NextRelabel]_vars


----------------------------------------------------------------------------
(* Properties *)

Running == pc \notin {"idle", "call", "returned"}
Returned == pc = "done"
HasRaised == "stage" \in DOMAIN raised

\* the minutes request was answered with text that holds no JSON object
NonJsonProse(call) == call.ok /\ ~extract_first_json_block(call.val).ok

\* C1: no exception escapes an entry point: when a stage's exception reaches
\* the entry point, the call returns its ProcessingResult with status failed
\* and the exception's message as error_message
C1_NoExceptionEscapes ==
    /\ pc # "escaped"
    /\ (Returned /\ HasRaised) =>
          /\ result.status = "failed"
          /\ result.error_message = Str(raised.exc.msg)

C1_Witness ==
    /\ Returned /\ HasRaised
    /\ mode = "process_meeting"
    /\ raised.stage = "minutes"
    /\ result.status = "failed"

\* C2: the status is processing from the creation of the result until the
\* last step, never pending, completed or failed once the entry point has
\* returned, and not changed after it became completed or failed
C2_StatusMachine ==
    /\ [](Running => /\ result.status \in {"processing", "completed", "failed"}
                     /\ (~Returned => result.status = "processing")
                     /\ (Returned => result.status \in {"completed", "failed"}))
    /\ [][(Running /\ result.status \in {"completed", "failed"})
            => result'.status = result.status]_vars

C2_Witness ==
    /\ Returned
    /\ mode = "process_meeting"
    /\ result.status = "completed"
    /\ "handles" \in DOMAIN created

\* C3: when transcription raises, the returned result is failed with an
\* error message, has no transcript, no minutes and no events, and has its
\* processing time
C3_TranscriptionFailure ==
    (Returned /\ HasRaised /\ raised.stage = "transcription") =>
        /\ result.status = "failed"
        /\ result.error_message.ty = "str"
        /\ result.transcript = None
        /\ result.minutes = None
        /\ result.calendar_events = <<>>
        /\ result.processing_time.ty = "num"

C3_Witness ==
    /\ Returned /\ HasRaised
    /\ raised.stage = "transcription"
    /\ raised.exc.msg = "transcription_failed"
    /\ mode = "extract_events_only"
    /\ result.status = "failed"

\* C4 (as claimed): speaker-name inference returns a mapping on every outcome
\* of the completion call, the empty mapping when the call or the extraction
\* failed
C4_InferenceNeverFails ==
    (pc = "returned"
     /\ fnIn.fn \in {"infer_speaker_names", "analyze_speaker_names_from_text"}) =>
        /\ fnOut.ok
        /\ (~fnIn.call.ok \/ NonJsonProse(fnIn.call)) => fnOut.val = EmptyDict

\* C5: when the minutes request is answered with non-JSON prose the run is
\* not failed by it: the minutes hold the key points of the bullet lines and
\* the summary of the summary line, no action items, decisions or next steps,
\* and the run ends completed
C5_FallbackCompletes ==
    \A i \in DOMAIN calls :
        (calls[i].stage = "minutes" /\ NonJsonProse(calls[i].call)) =>
            /\ ~HasRaised
            /\ pc # "escaped"
            /\ result.minutes # None
            /\ result.minutes.key_points
                 = BulletPoints(SplitLines(calls[i].call.val.toks, <<>>))
            /\ result.minutes.summary = SummaryText(calls[i].call.val.toks)
            /\ result.minutes.action_items = <<>>
            /\ result.minutes.decisions = <<>>
            /\ result.minutes.next_steps = <<>>
            /\ Returned => result.status = "completed"

C5_Witness ==
    /\ Returned
    /\ mode = "process_meeting"
    /\ result.status = "completed"
    /\ \E i \in DOMAIN calls :
          /\ calls[i].stage = "minutes"
          /\ NonJsonProse(calls[i].call)
          /\ Len(result.minutes.key_points) = 1
          /\ result.minutes.summary = StrOf(<<W("recap")>>)

ListKeys == {"key_points", "action_items", "decisions", "next_steps"}
IsList(x) == DOMAIN x = 1..Len(x)

\* C6 (as claimed): whatever text the completion service returns, minutes
\* are returned and their four list fields are lists; in particular a
\* response whose list keys are null or absent gives empty lists
C6_ListsNeverNull ==
    (pc = "returned" /\ fnIn.fn = "generate_meeting_minutes" /\ fnIn.call.ok) =>
        LET parsed == extract_first_json_block(fnIn.call.val) IN
        (~parsed.ok
         \/ (/\ \A k \in ListKeys : k \in DOMAIN parsed.val => parsed.val[k] = None
             /\ DOMAIN parsed.val \subseteq ListKeys)) =>
            /\ fnOut.ok
            /\ \A k \in ListKeys : IsList(fnOut.val[k])
            /\ parsed.ok => \A k \in ListKeys : fnOut.val[k] = <<>>

Priorities == {Str("low"), Str("medium"), Str("high")}

\* C7 (as claimed): every action item of returned minutes has priority low,
\* medium or high
C7_PriorityInRange ==
    (pc = "returned" /\ fnIn.fn = "generate_meeting_minutes" /\ fnOut.ok) =>
        \A i \in DOMAIN fnOut.val.action_items :
            fnOut.val.action_items[i].priority \in Priorities

IsCalendarEvent(ev) ==
    /\ DOMAIN ev = {"summary", "description", "start_time", "end_time", "attendees",
                    "location", "reminders"}
    /\ DOMAIN ev.start_time = {"dt"}
    /\ DOMAIN ev.end_time = {"dt"}

\* C8: extract_calendar_events returns a list of CalendarEvent on every
\* outcome of the completion call, the empty list when the call failed, the
\* response held no JSON object or an exception reached the outer handler
C8_ExtractionNeverFails ==
    (pc = "returned" /\ fnIn.fn = "extract_calendar_events") =>
        /\ fnOut.ok
        /\ IsList(fnOut.val)
        /\ \A i \in DOMAIN fnOut.val : IsCalendarEvent(fnOut.val[i])
        /\ (~fnIn.call.ok \/ NonJsonProse(fnIn.call) \/ ~EventsBody(fnIn.call).ok)
              => fnOut.val = <<>>

C8_Witness ==
    /\ pc = "returned"
    /\ fnIn.fn = "extract_calendar_events"
    /\ fnIn.call.ok
    /\ ~NonJsonProse(fnIn.call)
    /\ ~EventsBody(fnIn.call).ok
    /\ fnOut = Ok(<<>>)

\* a timestamp in one of the two formats YYYY-MM-DD HH:MM[:SS]
ParsesAsTime(v) == v.ty = "str" /\ "fmt" \in DOMAIN v /\ v.fmt \in {"hm", "hms"}

BothParse(c) ==
    /\ "start_time" \in DOMAIN c.d /\ ParsesAsTime(c.d["start_time"])
    /\ "end_time" \in DOMAIN c.d /\ ParsesAsTime(c.d["end_time"])

\* a candidate that is an object whose other fields have the requested types
WellTyped(c) ==
    /\ c.ty = "dict"
    /\ IsStr(Get(c.d, "summary", Str("")))
    /\ IsListOfStr(Get(c.d, "attendees", List(<<>>)))

RECURSIVE TimesOfParsing(_)
TimesOfParsing(cs) ==
    IF cs = <<>> THEN <<>>
    ELSE (IF BothParse(Head(cs))
          THEN << <<Head(cs).d["start_time"].t, Head(cs).d["end_time"].t>> >>
          ELSE <<>>) \o TimesOfParsing(Tail(cs))

\* C9 (as claimed): the events returned are exactly the candidates whose
\* start_time and end_time both parse, in input order
C9_CandidatesIndependent ==
    (pc = "returned" /\ fnIn.fn = "extract_calendar_events" /\ fnIn.call.ok) =>
        LET parsed == extract_first_json_block(fnIn.call.val) IN
        (/\ parsed.ok
         /\ "events" \in DOMAIN parsed.val
         /\ parsed.val["events"].ty = "list"
         /\ \A i \in DOMAIN parsed.val["events"].l : WellTyped(parsed.val["events"].l[i])) =>
            /\ fnOut.ok
            /\ [i \in DOMAIN fnOut.val |->
                  <<fnOut.val[i].start_time.dt, fnOut.val[i].end_time.dt>>]
                 = TimesOfParsing(parsed.val["events"].l)

\* C10 (as claimed): every event returned starts strictly before it ends
C10_StartBeforeEnd ==
    (pc = "returned" /\ fnIn.fn = "extract_calendar_events" /\ fnOut.ok) =>
        \A i \in DOMAIN fnOut.val :
            fnOut.val[i].start_time.dt < fnOut.val[i].end_time.dt

\* an entry that is a string containing '@'
HasAtSign(entry) == entry.ty = "str" /\ AT \in Range(entry.toks)

\* the entries with an '@', in their original order
RECURSIVE AddressesIn(_)
AddressesIn(entries) ==
    IF entries = <<>> THEN <<>>
    ELSE (IF HasAtSign(Head(entries)) THEN <<Head(entries)>> ELSE <<>>)
         \o AddressesIn(Tail(entries))

\* C11: create_event sends one request whose attendees are exactly the
\* entries of the event that are strings containing '@', in their original
\* order; dropping the others does not fail the operation (its outcome is the
\* calendar service's); when no entry is valid the request has no attendees
\* field
C11_ValidAttendeesSubmitted ==
    (pc = "returned" /\ fnIn.fn = "create_event") =>
        LET wanted == AddressesIn(fnIn.event.attendees) IN
        /\ Len(fnOut.requests) = 1
        /\ fnOut.out = ServiceResponse(fnIn.outcome, 1)
        /\ IF wanted = <<>>
           THEN "attendees" \notin DOMAIN fnOut.requests[1]
           ELSE /\ "attendees" \in DOMAIN fnOut.requests[1]
                /\ fnOut.requests[1]["attendees"]
                      = [i \in DOMAIN wanted |-> [email |-> wanted[i]]]

C11_Witness ==
    /\ pc = "returned"
    /\ fnIn.fn = "create_event"
    /\ fnIn.outcome = "created"
    /\ fnIn.event.attendees = <<StrOf(<<W("nobody")>>), Email("a", "b.com")>>
    /\ fnOut.out.ok
    /\ fnOut.requests[1]["attendees"] = <<[email |-> Email("a", "b.com")]>>

\* C12: create_events calls create_event once for every input event, in
\* input order, whatever the earlier calls did; it never raises; it returns
\* the handles of the events that were created, in input order
C12_BatchCreation ==
    (pc = "returned" /\ fnIn.fn = "create_events") =>
        LET n == Len(fnIn.events)
            succeeded == {i \in 1..n : fnIn.outcomes[i] = "created"}
        IN
        /\ fnOut.attempts = [i \in 1..n |-> i]
        /\ fnOut.out.ok
        /\ Len(fnOut.out.val) = Cardinality(succeeded)
        /\ Len(fnOut.out.val) <= n
        /\ \A j \in DOMAIN fnOut.out.val : fnOut.out.val[j].id \in succeeded
        /\ \A j, k \in DOMAIN fnOut.out.val :
              j < k => fnOut.out.val[j].id < fnOut.out.val[k].id

C12_Witness ==
    /\ pc = "returned"
    /\ fnIn.fn = "create_events"
    /\ Len(fnIn.events) = 2
    /\ fnIn.outcomes[1] = "connection_error"
    /\ fnIn.outcomes[2] = "created"
    /\ fnOut.attempts = <<1, 2>>
    /\ fnOut.out = Ok(<<[id |-> 2]>>)

Relabelled == pc = "returned" /\ fnIn.fn = "relabel"

\* what a mapping makes of an identifier
Image(map, id) == IF id \in DOMAIN map THEN map[id] ELSE id

\* C13: after the relabel step every segment's speaker and every speaker's
\* identifier is the original one when it is not a key of the mapping and
\* the mapping's value for it otherwise, so every segment's speaker is still
\* the identifier of a speaker of the list
C13_RelabelConsistent ==
    Relabelled =>
        /\ \A i \in DOMAIN fnOut.segments :
              fnOut.segments[i].speaker = Image(fnIn.speaker_map, fnIn.tr.segments[i].speaker)
        /\ \A j \in DOMAIN fnOut.speakers :
              fnOut.speakers[j].speaker_id
                 = Image(fnIn.speaker_map, fnIn.tr.speakers[j].speaker_id)
        /\ \A i \in DOMAIN fnOut.segments :
              \E j \in DOMAIN fnOut.speakers :
                 fnOut.speakers[j].speaker_id = fnOut.segments[i].speaker

C13_Witness ==
    /\ Relabelled
    /\ fnIn.speaker_map = [l \in {"A"} |-> "John"]
    /\ Len(fnIn.tr.segments) = 2
    /\ fnIn.tr.segments[1].speaker = "A"
    /\ fnIn.tr.segments[2].speaker = "B"
    /\ fnOut.segments[1].speaker = "John"
    /\ fnOut.segments[2].speaker = "B"
    /\ {fnOut.speakers[j].speaker_id : j \in DOMAIN fnOut.speakers} = {"John", "B"}

\* C14: no entry is relabelled twice: when the mapping sends a to b and b to
\* c, the entries that were a end as b and the entries that were b end as c
C14_NoChaining ==
    Relabelled =>
        \A a, b \in DOMAIN fnIn.speaker_map :
            fnIn.speaker_map[a] = b =>
                /\ \A i \in DOMAIN fnIn.tr.segments :
                      /\ fnIn.tr.segments[i].speaker = a => fnOut.segments[i].speaker = b
                      /\ fnIn.tr.segments[i].speaker = b
                            => fnOut.segments[i].speaker = fnIn.speaker_map[b]
                /\ \A j \in DOMAIN fnIn.tr.speakers :
                      /\ fnIn.tr.speakers[j].speaker_id = a => fnOut.speakers[j].speaker_id = b
                      /\ fnIn.tr.speakers[j].speaker_id = b
                            => fnOut.speakers[j].speaker_id = fnIn.speaker_map[b]

C14_Witness ==
    /\ Relabelled
    /\ fnIn.speaker_map = [l \in {"A", "B"} |-> IF l = "A" THEN "B" ELSE "John"]
    /\ Len(fnIn.tr.segments) = 2
    /\ fnIn.tr.segments[1].speaker = "A"
    /\ fnIn.tr.segments[2].speaker = "B"
    /\ fnOut.segments[1].speaker = "B"
    /\ fnOut.segments[2].speaker = "John"
    /\ \E j, k \in DOMAIN fnIn.tr.speakers :
          /\ fnIn.tr.speakers[j].speaker_id = "A" /\ fnOut.speakers[j].speaker_id = "B"
          /\ fnIn.tr.speakers[k].speaker_id = "B" /\ fnOut.speakers[k].speaker_id = "John"

\* C15: the relabel step changes nothing but the speaker identifier of the
\* entries whose identifier is a key of the mapping: the segments and the
\* speakers keep their number, their order and every other field, the other
\* entries are untouched, and an empty mapping leaves the transcript as it was
C15_RelabelChangesIdsOnly ==
    Relabelled =>
        /\ DOMAIN fnOut = DOMAIN fnIn.tr
        /\ \A f \in DOMAIN fnOut \ {"segments", "speakers"} : fnOut[f] = fnIn.tr[f]
        /\ Len(fnOut.segments) = Len(fnIn.tr.segments)
        /\ Len(fnOut.speakers) = Len(fnIn.tr.speakers)
        /\ \A i \in DOMAIN fnIn.tr.segments :
              /\ [fnOut.segments[i] EXCEPT !.speaker = fnIn.tr.segments[i].speaker]
                    = fnIn.tr.segments[i]
              /\ fnIn.tr.segments[i].speaker \notin DOMAIN fnIn.speaker_map
                    => fnOut.segments[i] = fnIn.tr.segments[i]
        /\ \A j \in DOMAIN fnIn.tr.speakers :
              /\ [fnOut.speakers[j] EXCEPT !.speaker_id = fnIn.tr.speakers[j].speaker_id]
                    = fnIn.tr.speakers[j]
              /\ fnIn.tr.speakers[j].speaker_id \notin DOMAIN fnIn.speaker_map
                    => fnOut.speakers[j] = fnIn.tr.speakers[j]
        /\ DOMAIN fnIn.speaker_map = {} => fnOut = fnIn.tr

C15_Witness ==
    /\ Relabelled
    /\ fnIn.speaker_map = [l \in {"A"} |-> "B"]
    /\ Len(fnIn.tr.segments) = 2
    /\ Len(fnIn.tr.speakers) = 2
    /\ Len(fnOut.speakers) = 2
    /\ fnOut.speakers[1].speaker_id = "B"
    /\ fnOut.speakers[2].speaker_id = "B"

Extracted == pc = "returned" /\ fnIn.fn = "extract_first_json_block"

\* opening minus closing braces among the first n lexemes
Depth(toks, n) ==
    Cardinality({i \in 1..n : toks[i] = LB}) - Cardinality({i \in 1..n : toks[i] = RB})

\* every closing brace closes an earlier opening one, and none stays open
Balanced(toks) ==
    /\ Depth(toks, Len(toks)) = 0
    /\ \A n \in 1..Len(toks) : Depth(toks, n) >= 0

\* the braces between the outer braces of the written object are balanced
NoUnbalancedBraces(obj) == Balanced(DumpsMembers(obj, 1))

\* C16 as stated: a valid JSON object without unbalanced braces, written
\* inside any prose, is extracted as a value equal to the object
C16_RoundTripInAnyProse ==
    (Extracted /\ "object" \in DOMAIN fnIn /\ NoUnbalancedBraces(fnIn.object)) =>
        fnOut = Ok(ValueOf(fnIn.object).d)

\* C16, amended: a valid JSON object without unbalanced braces is extracted
\* as a value equal to the object when the prose before it holds no opening
\* brace, whatever the prose after it
C16_RoundTripAfterBracelessProse ==
    (/\ Extracted
     /\ "object" \in DOMAIN fnIn
     /\ NoUnbalancedBraces(fnIn.object)
     /\ LB \notin Range(fnIn.before)) =>
        fnOut = Ok(ValueOf(fnIn.object).d)

C16_Witness ==
    /\ Extracted
    /\ "object" \in DOMAIN fnIn
    /\ fnIn.before = <<RB, SP>>
    /\ fnIn.after = <<SP, LB, RB>>
    /\ fnIn.object = Obj(<<Member("b", Obj(<<Member("a", Num(1))>>)),
                           Member("a", StrOf(<<LB, W("x"), RB>>))>>)
    /\ fnOut.ok
    /\ fnOut.val["b"] = Dict([k \in {"a"} |-> Num(1)])
    /\ fnOut.val["a"] = StrOf(<<LB, W("x"), RB>>)

NoJsonFound == Raise("ValueError", "no_json_object")
MalformedJson == Raise("ValueError", "no_valid_json_object")

Opens(toks) == {i \in DOMAIN toks : toks[i] = LB}
FirstOpen(toks) == CHOOSE i \in Opens(toks) : \A j \in Opens(toks) : i <= j

\* the positions at which the braces opened from the first one on are all closed
Closings(toks) ==
    IF Opens(toks) = {} THEN {}
    ELSE {j \in FirstOpen(toks)..Len(toks) :
            Cardinality({i \in FirstOpen(toks)..j : toks[i] = LB})
               = Cardinality({i \in FirstOpen(toks)..j : toks[i] = RB})}

HasBalancedBlock(toks) == Closings(toks) # {}

FirstBalancedBlock(toks) ==
    SubSeq(toks, FirstOpen(toks),
           CHOOSE j \in Closings(toks) : \A k \in Closings(toks) : j <= k)

\* C17 as stated: the 'no JSON found' failure exactly when the text holds no
\* balanced block (no opening brace, or a first opening brace that is never
\* closed), the 'malformed JSON' failure exactly when the first balanced
\* block is not valid JSON
C17_TwoFailuresByBalance ==
    Extracted =>
        /\ fnOut = NoJsonFound <=> ~HasBalancedBlock(fnIn.text.toks)
        /\ fnOut = MalformedJson <=>
              /\ HasBalancedBlock(fnIn.text.toks)
              /\ ~json_loads(FirstBalancedBlock(fnIn.text.toks)).ok

\* C17, amended: the 'no JSON found' failure exactly when the text holds no
\* opening brace; the other failure exactly when the text holds an opening
\* brace and either the first one is never closed or the first balanced
\* block is not valid JSON
C17_TwoFailuresByFirstBrace ==
    Extracted =>
        /\ fnOut = NoJsonFound <=> Opens(fnIn.text.toks) = {}
        /\ fnOut = MalformedJson <=>
              /\ Opens(fnIn.text.toks) # {}
              /\ \/ ~HasBalancedBlock(fnIn.text.toks)
                 \/ ~json_loads(FirstBalancedBlock(fnIn.text.toks)).ok

C17_Witness ==
    /\ Extracted
    /\ fnIn.text.toks = <<W("x"), LB, KV("a", Num(1))>>
    /\ ~HasBalancedBlock(fnIn.text.toks)
    /\ fnOut = MalformedJson

FailsAfterTranscription ==
    /\ mode \in {"process_meeting", "generate_minutes_only"}
    /\ ~HasRaised
    /\ HasRaised'
    /\ raised'.stage # "transcription"

\* C18: in process_meeting and generate_minutes_only, when a stage after
\* transcription raises, the result returned is failed and holds the
\* transcript as it was when the stage raised, and every other artifact
\* attached before: the failure clears nothing
C18_ArtifactsKept ==
    [][FailsAfterTranscription =>
          /\ pc' = "done"
          /\ result'.status = "failed"
          /\ result.transcript = transcript
          /\ transcript # None
          /\ result'.transcript = transcript
          /\ result'.minutes = result.minutes
          /\ result'.calendar_events = result.calendar_events]_vars

C18_Witness ==
    /\ pc = "done"
    /\ mode = "process_meeting"
    /\ HasRaised
    /\ raised.stage = "minutes"
    /\ DOMAIN speaker_map = {"A"}
    /\ result.status = "failed"
    /\ result.transcript = transcript
    /\ Len(transcript.segments) = 2
    /\ transcript.segments[1].speaker = "John"

\* C19: every result returned by any of the four modes has its processing
\* time set, and an error message exactly when its status is failed
C19_TimeAndMessage ==
    Returned =>
        /\ result.processing_time # None
        /\ result.processing_time.ty = "num"
        /\ result.error_message # None <=> result.status = "failed"

C19_Witness ==
    /\ Returned
    /\ mode = "generate_transcript_only"
    /\ result.status = "completed"
    /\ result.processing_time = Num(2)
    /\ result.error_message = None

EventsStageRan == \E i \in DOMAIN calls : calls[i].stage = "events"

\* C20: a completed result holds the transcript in every mode and the
\* minutes in process_meeting and generate_minutes_only; once the events
\* have been extracted the run completes whatever their number, none included
C20_CompletedCarriesArtifacts ==
    Returned =>
        /\ result.status = "completed" =>
              /\ result.transcript # None
              /\ result.transcript = transcript
              /\ mode \in {"process_meeting", "generate_minutes_only"}
                    => result.minutes # None
        /\ EventsStageRan => result.status = "completed"

C20_Witness ==
    /\ Returned
    /\ mode = "process_meeting"
    /\ EventsStageRan
    /\ result.status = "completed"
    /\ result.calendar_events = <<>>
    /\ result.minutes # None
    /\ result.transcript # None
    /\ created = None

\* the order of the stages of process_meeting; the calendar stage is left
\* out when no event was extracted, and a stage that raises ends the run
PipelineOrder ==
    { <<"idle", "transcribe">>, <<"transcribe", "infer">>, <<"infer", "relabel">>,
      <<"relabel", "minutes">>, <<"minutes", "events">>, <<"events", "calendar">>,
      <<"events", "complete">>, <<"calendar", "complete">>, <<"complete", "done">> }

StageRaised == ~HasRaised /\ HasRaised' /\ pc' = "done"

\* C21: in process_meeting the stages run in the order transcription,
\* speaker inference, relabelling, minutes, events, calendar, each starting
\* when its predecessor has finished: the minutes stage starts on the
\* relabelled transcript and the events stage starts with the minutes attached
C21_StageOrder ==
    [][(mode' = "process_meeting" /\ pc' # pc) =>
          /\ <<pc, pc'>> \in PipelineOrder \/ StageRaised
          /\ pc' = "minutes" => /\ transcript' = Relabeled(transcript, speaker_map)
                                /\ result'.transcript = transcript'
                                /\ result'.minutes = None
          /\ pc' = "events" => /\ result'.minutes # None
                               /\ transcript' = transcript
                               /\ result'.calendar_events = <<>>
          /\ pc' = "calendar" => /\ result'.calendar_events # <<>>
                                 /\ created' = None]_vars

C21_Witness ==
    /\ pc = "done"
    /\ mode = "process_meeting"
    /\ result.status = "completed"
    /\ [i \in DOMAIN calls |-> calls[i].stage]
          = <<"transcription", "infer", "minutes", "events">>
    /\ DOMAIN speaker_map = {"A", "B"}
    /\ "handles" \in DOMAIN created
    /\ created.attempts = <<1>>

InferenceRan == \E i \in DOMAIN calls : calls[i].stage = "infer"

\* C22 (as claimed): in every mode, when minutes generation or event
\* extraction is about to consume the transcript, speaker inference has run
\* and its mapping has been applied to the transcript
C22_RelabelledBeforeConsumed ==
    (mode \in Modes /\ pc \in {"minutes", "events"}) =>
        /\ InferenceRan
        /\ speaker_map # None

\* responses of three kinds to run generate_meeting_minutes a second time on
OtherResponses ==
    { Text(<<LB, RB>>),
      Text(<<BUL, SP, W("point"), NL, BUL, W("q")>>),
      Text(<<LB, KV("participants", List(<<Str("Zoe")>>)), KV("summary", Str("recap")), RB>>),
      Text(<<LB, KV("key_points", List(<<Str("point")>>)), KV("decisions", List(<<Dict(DecisionDict)>>)), RB>>) }

\* C23: the participants of the minutes are the distinct speaker identifiers
\* of the transcript's segments whatever the completion service answered: a
\* second run on the same transcript with another response yields the same
\* participants
C23_ParticipantsFromTranscript ==
    (pc = "returned" /\ fnIn.fn = "generate_meeting_minutes" /\ fnOut.ok) =>
        /\ \A id \in Labels :
              id \in fnOut.val.participants
                 <=> \E i \in DOMAIN fnIn.tr.segments : fnIn.tr.segments[i].speaker = id
        /\ fnOut.val.participants \subseteq Labels
        /\ \A other \in OtherResponses :
              LET second == generate_meeting_minutes(fnIn.tr, other) IN
              second.ok /\ second.val.participants = fnOut.val.participants

C23_Witness ==
    /\ pc = "returned"
    /\ fnIn.fn = "generate_meeting_minutes"
    /\ fnIn.call = Text(<<LB, KV("participants", List(<<Str("Zoe")>>)),
                          KV("summary", Str("recap")), RB>>)
    /\ Len(fnIn.tr.segments) = 2
    /\ fnOut.ok
    /\ fnOut.val.participants = {"A", "B"}

\* C24: the only block handed to json.loads is the first balanced block from
\* the first opening brace: a value returned is the value of that block, and
\* when that block is not valid JSON the call fails, whatever follows it
C24_OneParseAttempt ==
    Extracted =>
        /\ fnOut.ok =>
              /\ HasBalancedBlock(fnIn.text.toks)
              /\ fnOut = json_loads(FirstBalancedBlock(fnIn.text.toks))
        /\ (/\ HasBalancedBlock(fnIn.text.toks)
            /\ ~json_loads(FirstBalancedBlock(fnIn.text.toks)).ok) => ~fnOut.ok

\* a first block that is not JSON, then a valid object
C24_Witness ==
    /\ Extracted
    /\ "object" \in DOMAIN fnIn
    /\ fnIn.before = <<W("use"), LB, W("x"), RB, NL>>
    /\ fnIn.object = Obj(<<Member("a", Num(1))>>)
    /\ json_loads(Dumps(fnIn.object)).ok
    /\ FirstBalancedBlock(fnIn.text.toks) = <<LB, W("x"), RB>>
    /\ fnOut = MalformedJson

CallsOf(stage) == {i \in DOMAIN calls : calls[i].stage = stage}
CompletionStages == {"infer", "minutes", "events"}
CompletionCalls == {i \in DOMAIN calls : calls[i].stage \in CompletionStages}

\* C25: in a run the transcription service is called exactly once, each of
\* speaker inference, minutes generation and event extraction calls the
\* completion service at most once, so at most three times in all, and a
\* call that failed is not made again: when it fails a stage that raises it
\* is the last call of the run
C25_NoRetries ==
    /\ pc \in {"idle", "transcribe"} => calls = <<>>
    /\ pc \in {"infer", "relabel", "minutes", "events", "calendar", "complete", "done"}
          => Cardinality(CallsOf("transcription")) = 1
    /\ \A stage \in CompletionStages : Cardinality(CallsOf(stage)) <= 1
    /\ Cardinality(CompletionCalls) <= 3
    /\ mode # "process_meeting" => Cardinality(CompletionCalls) <= 1
    /\ \A i \in DOMAIN calls :
          (calls[i].stage \in {"infer", "minutes"} /\ ~calls[i].call.ok)
             => i = Len(calls) /\ pc = "done"

C25_Witness ==
    /\ pc = "done"
    /\ mode = "process_meeting"
    /\ Cardinality(CompletionCalls) = 3
    /\ Len(calls) = 4
    /\ ~calls[4].call.ok
    /\ result.status = "completed"

\* the response is one action item with the given due date
AnswersDueDate(v) ==
    fnIn.call = Text(<<LB, KV("action_items", List(<<ItemWithDueDate(v)>>)), RB>>)

\* a string of the form YYYY-MM-DD
IsYmd(v) == v.ty = "str" /\ "fmt" \in DOMAIN v /\ v.fmt = "ymd"

\* C26 (as claimed): whatever the response gives as due_date, minutes
\* generation returns, and the action item has a due date exactly when the
\* due_date is a string of the form YYYY-MM-DD
C26_DueDateNeverFails ==
    \A v \in DueDateValues :
        (pc = "returned" /\ fnIn.fn = "generate_meeting_minutes" /\ AnswersDueDate(v)) =>
            /\ fnOut.ok
            /\ Len(fnOut.val.action_items) = 1
            /\ fnOut.val.action_items[1].due_date # None <=> IsYmd(v)

Transcribed == calls # <<>> /\ calls[1].stage = "transcription"

\* the relabel step has not changed the transcript
BeforeRelabel ==
    \/ mode # "process_meeting"
    \/ pc \in {"infer", "relabel"}
    \/ HasRaised /\ raised.stage = "infer"

\* C27: the transcript transcribe_audio builds has one segment per utterance,
\* in utterance order, a speaker list that holds every distinct utterance
\* speaker exactly once and nothing else, and so every segment's speaker in
\* that list; a transcription that ends with error status raises and leaves
\* no transcript
C27_TranscriptInvariant ==
    Transcribed =>
        LET out == calls[1].call IN
        IF out.status = "completed"
        THEN BeforeRelabel =>
                /\ transcript # None
                /\ Len(transcript.segments) = Len(out.utterances)
                /\ \A i \in DOMAIN out.utterances :
                      /\ transcript.segments[i].speaker = out.utterances[i].speaker
                      /\ transcript.segments[i].text = out.utterances[i].text
                      /\ transcript.segments[i].start = out.utterances[i].start
                      /\ transcript.segments[i].end = out.utterances[i].end
                /\ \A id \in Labels :
                      Cardinality({j \in DOMAIN transcript.speakers :
                                      transcript.speakers[j].speaker_id = id})
                         = IF \E i \in DOMAIN out.utterances : out.utterances[i].speaker = id
                           THEN 1 ELSE 0
                /\ \A j \in DOMAIN transcript.speakers :
                      transcript.speakers[j].speaker_id \in Labels
                /\ \A i \in DOMAIN transcript.segments :
                      \E j \in DOMAIN transcript.speakers :
                         transcript.speakers[j].speaker_id = transcript.segments[i].speaker
        ELSE /\ transcript = None
             /\ result.transcript = None
             /\ HasRaised
             /\ raised.stage = "transcription"

C27_Witness ==
    /\ Transcribed
    /\ pc = "infer"
    /\ calls[1].call.status = "completed"
    /\ Len(calls[1].call.utterances) = 2
    /\ calls[1].call.utterances[1].speaker = "B"
    /\ calls[1].call.utterances[2].speaker = "A"
    /\ transcript.segments[1].speaker = "B"
    /\ transcript.speakers[1].speaker_id = "A"
    /\ transcript.speakers[2].speaker_id = "B"

CalendarInvoked == "handles" \in DOMAIN created

\* the events that extraction returned in this run
ExtractedEvents ==
    LET i == CHOOSE j \in DOMAIN calls : calls[j].stage = "events" IN
    extract_calendar_events(transcript, result.minutes, calls[i].call).val

\* C28: the calendar service is called only in process_meeting and
\* extract_events_only and only with a non-empty list of extracted events,
\* once for each; whatever the creations did, all failing included, the run
\* ends completed with calendar_events equal to the extracted list
C28_CalendarLeavesResult ==
    /\ CalendarInvoked =>
          /\ mode \in {"process_meeting", "extract_events_only"}
          /\ EventsStageRan
          /\ ExtractedEvents # <<>>
          /\ Len(created.requests) = Len(ExtractedEvents)
          /\ result.calendar_events = ExtractedEvents
          /\ ~HasRaised
          /\ Returned => result.status = "completed" /\ result.error_message = None
    /\ (EventsStageRan /\ Returned) =>
          /\ result.status = "completed"
          /\ result.calendar_events = ExtractedEvents
          /\ CalendarInvoked <=> ExtractedEvents # <<>>

C28_Witness ==
    /\ Returned
    /\ mode = "extract_events_only"
    /\ CalendarInvoked
    /\ created.attempts = <<1>>
    /\ created.handles = <<>>
    /\ Len(result.calendar_events) = 1
    /\ result.status = "completed"

\* C29 (as claimed): every attendee of every event body sent to the calendar
\* service, by create_event, create_events or update_event, is a string
\* containing '@'
C29_SubmittedAttendeesValid ==
    (pc = "returned" /\ fnIn.fn \in {"create_event", "create_events", "update_event"}) =>
        \A r \in DOMAIN fnOut.requests :
            "attendees" \in DOMAIN fnOut.requests[r] =>
                \A a \in DOMAIN fnOut.requests[r]["attendees"] :
                    HasAtSign(fnOut.requests[r]["attendees"][a].email)

DistinctIds(speakers) ==
    \A i, j \in DOMAIN speakers : i # j => speakers[i].speaker_id # speakers[j].speaker_id

\* C30 (as claimed): a speaker list of pairwise distinct identifiers still
\* has pairwise distinct identifiers after the relabel step, for every
\* mapping of labels to names
C30_RelabelKeepsIdsDistinct ==
    (Relabelled /\ DistinctIds(fnIn.tr.speakers)) => DistinctIds(fnOut.speakers)


====
